---- MODULE Spec2Model ----
(***************************************************************************)
(* Authentication and session issuance of the Aakar3D backend              *)
(* (backend/server.js): the User collection, POST /api/signup,             *)
(* POST /api/login, GET /api/profile and the authenticateToken middleware; *)
(* the token kept and dropped by the frontend AuthService; the frontend    *)
(* App with its Signup and Login forms; the generate-house,                *)
(* generate-example and bulk-generate relays to the ML service; and the    *)
(* generator components MLGenerator and AakarDashboard.                    *)
(* Every request handler is split at its await points, so that the steps   *)
(* of concurrent requests interleave the way the Node event loop allows.   *)
(***************************************************************************)
EXTENDS FiniteSets, Integers, Sequences, TLC

VARIABLES users, req, now, clientToken, discarded, mlCalls, app, gen

vars == <<users, req, now, clientToken, discarded, mlCalls, app, gen>>

(***************************************************************************)
(* Bounds of the model.                                                    *)
(***************************************************************************)
NSlots == 2
MaxTime == 2
NSalts == 1

Slots == 1..NSlots
Salts == 1..NSalts

(***************************************************************************)
(* Strings are sequences of one-character strings.  Undefined stands for   *)
(* a JSON body field that is missing (JavaScript undefined).               *)
(***************************************************************************)
Undefined == <<"undefined">>

Falsy(v) == v = Undefined \/ v = <<>>

UpperCase == <<"A", "B", "C", "D", "J", "S", "X", "Y">>
LowerCase == <<"a", "b", "c", "d", "j", "s", "x", "y">>

toLowerCaseChar(c) ==
  IF \E i \in DOMAIN UpperCase : UpperCase[i] = c
  THEN LowerCase[CHOOSE i \in DOMAIN UpperCase : UpperCase[i] = c]
  ELSE c

toLowerCase(s) == [i \in DOMAIN s |-> toLowerCaseChar(s[i])]

RECURSIVE trimStart(_)
trimStart(s) ==
  IF s # <<>> /\ Head(s) = " " THEN trimStart(Tail(s)) ELSE s

RECURSIVE trimEnd(_)
trimEnd(s) ==
  IF s # <<>> /\ s[Len(s)] = " " THEN trimEnd(SubSeq(s, 1, Len(s) - 1)) ELSE s

trim(s) == trimEnd(trimStart(s))

(***************************************************************************)
(* userSchema: the setters mongoose applies to a path when a document is   *)
(* constructed and when a query filter is cast.                            *)
(***************************************************************************)
setFullName(v) == trim(v)
setUsername(v) == toLowerCase(trim(v))
setEmail(v) == toLowerCase(trim(v))

(***************************************************************************)
(* bcryptjs: a hash is a value of its own shape, carrying the cost, the    *)
(* salt and a one-way image of the plaintext.                              *)
(***************************************************************************)
saltRounds == 12

\* faulty variant: the plaintext is kept as the digest
bcryptHash_plaintext(password, rounds, salt) ==
  [alg |-> "2a", cost |-> rounds, salt |-> salt, digest |-> password]

bcryptHash(password, rounds, salt) ==
  [alg |-> "2a", cost |-> rounds, salt |-> salt, digest |-> <<"H", salt, password>>]

bcryptCompare(password, hash) ==
  hash.digest = <<"H", hash.salt, password>>

(***************************************************************************)
(* jsonwebtoken: sign and verify.  Time is counted in days.                *)
(***************************************************************************)
JWT_SECRET == "aakar3d_secret_key_2025"
ExpiresInDays == 7

hmac(key, payload) == [key |-> key, msg |-> payload]

\* faulty variant: the token is signed without the id of the record
jwtSign_wrongUserId(claims, secret, t) ==
  LET payload == [userId |-> 0, username |-> claims.username,
                  email |-> claims.email, iat |-> t, exp |-> t + ExpiresInDays]
  IN  [wellFormed |-> TRUE, payload |-> payload, sig |-> hmac(secret, payload)]

\* faulty variant: the token carries the id after that of the record
jwtSign_nextUserId(claims, secret, t) ==
  LET payload == [userId |-> claims.userId + 1, username |-> claims.username,
                  email |-> claims.email, iat |-> t, exp |-> t + ExpiresInDays]
  IN  [wellFormed |-> TRUE, payload |-> payload, sig |-> hmac(secret, payload)]

jwtSign(claims, secret, t) ==
  LET payload == [userId |-> claims.userId, username |-> claims.username,
                  email |-> claims.email, iat |-> t, exp |-> t + ExpiresInDays]
  IN  [wellFormed |-> TRUE, payload |-> payload, sig |-> hmac(secret, payload)]

\* faulty variant: the expiry time is not checked
jwtVerify_noExpiry(token, secret, t) ==
  IF ~token.wellFormed THEN [err |-> "JsonWebTokenError", user |-> token.payload]
  ELSE IF token.sig # hmac(secret, token.payload)
    THEN [err |-> "JsonWebTokenError", user |-> token.payload]
  ELSE [err |-> "none", user |-> token.payload]

\* faulty variant: the signature is not checked
jwtVerify_noSignatureCheck(token, secret, t) ==
  IF ~token.wellFormed THEN [err |-> "JsonWebTokenError", user |-> token.payload]
  ELSE IF t >= token.payload.exp
    THEN [err |-> "TokenExpiredError", user |-> token.payload]
  ELSE [err |-> "none", user |-> token.payload]

jwtVerify(token, secret, t) ==
  IF ~token.wellFormed THEN [err |-> "JsonWebTokenError", user |-> token.payload]
  ELSE IF token.sig # hmac(secret, token.payload)
    THEN [err |-> "JsonWebTokenError", user |-> token.payload]
  ELSE IF t >= token.payload.exp
    THEN [err |-> "TokenExpiredError", user |-> token.payload]
  ELSE [err |-> "none", user |-> token.payload]

\* no token: the client holds none
NoToken == [none |-> TRUE]

(***************************************************************************)
(* Request bodies the clients send.                                        *)
(***************************************************************************)
FN_Jo == <<"J", "o">>
UN_ab == <<"a", "b">>
UN_Ab == <<"A", "b">>
UN_cd == <<"c", "d">>
EM_x == <<"x", "@", "m">>
EM_X == <<"X", "@", "m">>
EM_y == <<"y", "@", "m">>
PW_secret1 == <<"s", "e", "c", "r", "e", "t", "1">>
PW_Secret1 == <<"S", "e", "c", "r", "e", "t", "1">>
PW_short == <<"a", "b", "c", "1", "2">>
Blank == <<" ">>

SignupBody(f, u, e, p) == [fullName |-> f, username |-> u, email |-> e, password |-> p]

\* well-formed bodies: every combination of the usernames and emails
GoodSignupBodies ==
  {SignupBody(FN_Jo, u, e, PW_secret1) : u \in {UN_ab, UN_Ab, UN_cd}, e \in {EM_x, EM_X, EM_y}}

\* bodies with one field missing, empty, blank or too short
BadSignupBodies ==
  {SignupBody(f, UN_ab, EM_x, PW_secret1) : f \in {Undefined, <<>>, Blank}}
  \cup {SignupBody(FN_Jo, u, EM_x, PW_secret1) : u \in {Undefined, <<>>, Blank}}
  \cup {SignupBody(FN_Jo, UN_ab, e, PW_secret1) : e \in {Undefined, <<>>, Blank}}
  \cup {SignupBody(FN_Jo, UN_ab, EM_x, p) : p \in {Undefined, <<>>, PW_short}}

SignupBodies == GoodSignupBodies \cup BadSignupBodies

(***************************************************************************)
(* State of a request slot: the request, the handler's position, its       *)
(* local variables and the response it sent.                               *)
(***************************************************************************)
NoBody == [none |-> TRUE]
NoLocals == [none |-> TRUE]
NoResponse == [status |-> 0, body |-> [none |-> TRUE]]
IdleSlot ==
  [kind |-> "none", body |-> NoBody, pc |-> "idle", loc |-> NoLocals,
   res |-> NoResponse, fault |-> "none"]

Respond(s, status, body) ==
  req' = [req EXCEPT ![s].pc = "done", ![s].loc = NoLocals,
                     ![s].res = [status |-> status, body |-> body]]

\* faulty variant: the response names what failed
Throw_leaksDetail(s, what, status, body) ==
  req' = [req EXCEPT ![s].pc = "done", ![s].loc = NoLocals, ![s].fault = what,
                     ![s].res = [status |-> status,
                                 body |-> [error |-> body.error, detail |-> what]]]

\* a rejected promise of the store or the hasher, caught by the handler
Throw(s, what, status, body) ==
  req' = [req EXCEPT ![s].pc = "done", ![s].loc = NoLocals, ![s].fault = what,
                     ![s].res = [status |-> status, body |-> body]]

(***************************************************************************)
(* State of the frontend: the AuthService singleton (its token is          *)
(* clientToken), localStorage, the App component and the generator         *)
(* component.                                                              *)
(***************************************************************************)
NoUser == [none |-> TRUE]
NoItem == [none |-> TRUE]

\* JSON.stringify(user) and JSON.parse(item || 'null')
JSONstringify(v) == [json |-> v]
JSONparse(item) == IF item = NoItem THEN NoUser ELSE item.json

\* the page after its scripts ran: AuthService constructed from localStorage,
\* App mounted with its initial state and checkAuth about to run
AppLoaded(lsToken, lsUser) ==
  [user |-> JSONparse(lsUser), lsToken |-> lsToken, lsUser |-> lsUser,
   currentView |-> "home", appUser |-> NoUser, isLoading |-> TRUE,
   pc |-> "boot", sent |-> NoBody, timers |-> 0]

\* the components that generate houses, each with its own state
Components == {"MLGenerator", "AakarDashboard"}

\* a generator component as mounted: the useState initial values, and the
\* requests it started whose await has not returned (pending) with the call
\* they make
GenIdle ==
  [isGenerating |-> FALSE, pending |-> 0, call |-> "none", description |-> <<>>,
   files |-> {}, result |-> "null", error |-> <<>>]

Init ==
  /\ users = {}
  /\ req = [s \in Slots |-> IdleSlot]
  /\ now = 0
  /\ clientToken = NoToken
  /\ discarded = NoToken
  /\ mlCalls = [s \in Slots |-> 0]
  /\ app = AppLoaded(NoToken, NoItem)
  /\ gen = [c \in Components |-> GenIdle]

(***************************************************************************)
(* The User collection.                                                    *)
(***************************************************************************)
\* User.findOne({$or: [{email}, {username}]}): the documents that match.
\* The filter is cast through the schema setters, as mongoose 5 does, and
\* findOne returns any one of the matching documents.  (Without the cast a
\* document is matched only by a value that is already normalized; the
\* handler treats a document matched through the cast like no document, so
\* the outcomes without the cast are among the outcomes modelled here.)
findOneMatches(email, username) ==
  {u \in users : u.email = setEmail(email) \/ u.username = setUsername(username)}

\* new User({...}): setters applied, _id assigned
ObjectId ==
  LET used == {u.id : u \in users}
              \cup {req[t].loc.newUser.id : t \in {t \in Slots : req[t].pc = "save"}}
  IN  CHOOSE i \in 1..(Cardinality(used) + 1) : i \notin used

newUserDoc(body, hashedPassword) ==
  [id |-> ObjectId, fullName |-> setFullName(body.fullName),
   username |-> setUsername(body.username), email |-> setEmail(body.email),
   password |-> hashedPassword]

\* schema validation run by save(): the required paths
validateSync(doc) ==
  doc.fullName # <<>> /\ doc.username # <<>> /\ doc.email # <<>>

\* faulty variant: the unique index on email is missing
duplicateKey_usernameOnly(doc) ==
  \E u \in users : u.username = doc.username

\* faulty variant: the unique index on username is missing
duplicateKey_emailOnly(doc) ==
  \E u \in users : u.email = doc.email

\* the unique indexes on username and email
duplicateKey(doc) ==
  \E u \in users : u.username = doc.username \/ u.email = doc.email

\* the document as stored, with the timestamps option
stored(doc) ==
  [id |-> doc.id, fullName |-> doc.fullName, username |-> doc.username,
   email |-> doc.email, password |-> doc.password, createdAt |-> now]

(***************************************************************************)
(* POST /api/signup                                                        *)
(***************************************************************************)
ServerError == [error |-> "Internal server error. Please try again."]

signupView(u) ==
  [id |-> u.id, fullName |-> u.fullName, username |-> u.username, email |-> u.email]

\* !fullName || !username || !email || !password
missingField(body) ==
  Falsy(body.fullName) \/ Falsy(body.username) \/ Falsy(body.email) \/ Falsy(body.password)

\* faulty variant: the length check is off by one
passwordTooShort_offByOne(body) == Len(body.password) < 5

\* password.length < 6
passwordTooShort(body) == Len(body.password) < 6

\* the request arrives; validation; the findOne query is issued
SignupStart(s, body) ==
  /\ req[s].pc \in {"idle", "done"}
  /\ IF missingField(body)
     THEN req' = [req EXCEPT ![s] = [IdleSlot EXCEPT !.kind = "signup", !.body = body,
                    !.pc = "done",
                    !.res = [status |-> 400, body |-> [error |-> "All fields are required"]]]]
     ELSE IF passwordTooShort(body)
     THEN req' = [req EXCEPT ![s] = [IdleSlot EXCEPT !.kind = "signup", !.body = body,
                    !.pc = "done",
                    !.res = [status |-> 400,
                             body |-> [error |-> "Password must be at least 6 characters long"]]]]
     ELSE req' = [req EXCEPT ![s] = [IdleSlot EXCEPT !.kind = "signup", !.body = body,
                    !.pc = "findOne"]]
  /\ UNCHANGED <<users, now, clientToken, discarded, mlCalls, app, gen>>

\* the existence check, given the result of findOne
signupCheck(s, found, existingUser) ==
  IF found /\ existingUser.email = req[s].body.email
  THEN Respond(s, 400, [error |-> "Email already registered"])
  ELSE IF found /\ existingUser.username = req[s].body.username
  THEN Respond(s, 400, [error |-> "Username already taken"])
  ELSE req' = [req EXCEPT ![s].pc = "hash"]

\* findOne resolves
SignupFindOne(s) ==
  /\ req[s].kind = "signup" /\ req[s].pc = "findOne"
  /\ LET m == findOneMatches(req[s].body.email, req[s].body.username)
     IN  IF m = {}
         THEN signupCheck(s, FALSE, NoLocals)
         ELSE \E existingUser \in m : signupCheck(s, TRUE, existingUser)
  /\ UNCHANGED <<users, now, clientToken, discarded, mlCalls, app, gen>>

\* bcrypt.hash resolves; the document is built and save() is issued
SignupHash(s) ==
  /\ req[s].kind = "signup" /\ req[s].pc = "hash"
  /\ \E salt \in Salts :
       LET hashedPassword == bcryptHash(req[s].body.password, saltRounds, salt)
       IN  req' = [req EXCEPT ![s].pc = "save",
                     ![s].loc = [newUser |-> newUserDoc(req[s].body, hashedPassword)]]
  /\ UNCHANGED <<users, now, clientToken, discarded, mlCalls, app, gen>>

\* faulty variant: the record is written even when the signup is answered 500
SignupSave_writesBeforeChecking(s) ==
  /\ req[s].kind = "signup" /\ req[s].pc = "save"
  /\ LET newUser == req[s].loc.newUser
     IN  /\ users' = users \cup {stored(newUser)}
         /\ IF ~validateSync(newUser) \/ duplicateKey(newUser)
            THEN Respond(s, 500, ServerError)
            ELSE Respond(s, 201,
                   [message |-> "Account created successfully!",
                    token |-> jwtSign([userId |-> newUser.id, username |-> newUser.username,
                                       email |-> newUser.email], JWT_SECRET, now),
                    user |-> signupView(newUser)])
  /\ UNCHANGED <<now, clientToken, discarded, mlCalls, app, gen>>

\* faulty variant: the signup is answered 201 without the record being stored
SignupSave_answersWithoutSaving(s) ==
  /\ req[s].kind = "signup" /\ req[s].pc = "save"
  /\ LET newUser == req[s].loc.newUser
     IN  IF ~validateSync(newUser) \/ duplicateKey(newUser)
         THEN Respond(s, 500, ServerError)
         ELSE Respond(s, 201,
                [message |-> "Account created successfully!",
                 token |-> jwtSign([userId |-> newUser.id, username |-> newUser.username,
                                    email |-> newUser.email], JWT_SECRET, now),
                 user |-> signupView(newUser)])
  /\ UNCHANGED <<users, now, clientToken, discarded, mlCalls, app, gen>>

\* save() resolves or rejects; on success the token is signed and sent
SignupSave(s) ==
  /\ req[s].kind = "signup" /\ req[s].pc = "save"
  /\ LET newUser == req[s].loc.newUser
     IN  IF ~validateSync(newUser) \/ duplicateKey(newUser)
         THEN /\ Respond(s, 500, ServerError)
              /\ UNCHANGED users
         ELSE /\ users' = users \cup {stored(newUser)}
              /\ Respond(s, 201,
                   [message |-> "Account created successfully!",
                    token |-> jwtSign([userId |-> newUser.id, username |-> newUser.username,
                                       email |-> newUser.email], JWT_SECRET, now),
                    user |-> signupView(newUser)])
  /\ UNCHANGED <<now, clientToken, discarded, mlCalls, app, gen>>

\* the store or the hasher fails while the handler awaits it
SignupFault(s) ==
  /\ req[s].kind = "signup" /\ req[s].pc \in {"findOne", "hash", "save"}
  /\ Throw(s, IF req[s].pc = "hash" THEN "hasher" ELSE "store", 500, ServerError)
  /\ UNCHANGED <<users, now, clientToken, discarded, mlCalls, app, gen>>

(***************************************************************************)
(* POST /api/login                                                         *)
(***************************************************************************)
LoginBody(i, p) == [emailOrUsername |-> i, password |-> p]

LoginBodies ==
  {LoginBody(i, p) : i \in {Undefined, <<>>, UN_ab, UN_Ab, UN_cd, EM_x, EM_X},
                     p \in {Undefined, <<>>, PW_secret1, PW_Secret1}}

InvalidCredentials == [error |-> "Invalid credentials"]

loginView(u) ==
  [id |-> u.id, fullName |-> u.fullName, username |-> u.username, email |-> u.email]

\* User.findOne({$or: [{email: lower}, {username: lower}]})
loginMatches(emailOrUsername) ==
  {u \in users : \/ u.email = setEmail(toLowerCase(emailOrUsername))
                 \/ u.username = setUsername(toLowerCase(emailOrUsername))}

\* faulty variant: only the identifier is required
LoginStart_ignoresPassword(s, body) ==
  /\ req[s].pc \in {"idle", "done"}
  /\ IF Falsy(body.emailOrUsername)
     THEN req' = [req EXCEPT ![s] = [IdleSlot EXCEPT !.kind = "login", !.body = body,
                    !.pc = "done",
                    !.res = [status |-> 400,
                             body |-> [error |-> "Email/Username and password are required"]]]]
     ELSE req' = [req EXCEPT ![s] = [IdleSlot EXCEPT !.kind = "login", !.body = body,
                    !.pc = "findOne"]]
  /\ UNCHANGED <<users, now, clientToken, discarded, mlCalls, app, gen>>

\* the request arrives; validation; the findOne query is issued
LoginStart(s, body) ==
  /\ req[s].pc \in {"idle", "done"}
  /\ IF Falsy(body.emailOrUsername) \/ Falsy(body.password)
     THEN req' = [req EXCEPT ![s] = [IdleSlot EXCEPT !.kind = "login", !.body = body,
                    !.pc = "done",
                    !.res = [status |-> 400,
                             body |-> [error |-> "Email/Username and password are required"]]]]
     ELSE req' = [req EXCEPT ![s] = [IdleSlot EXCEPT !.kind = "login", !.body = body,
                    !.pc = "findOne"]]
  /\ UNCHANGED <<users, now, clientToken, discarded, mlCalls, app, gen>>

\* faulty variant: an unknown identifier is answered differently from a wrong password
LoginFindOne_userNotFound(s) ==
  /\ req[s].kind = "login" /\ req[s].pc = "findOne"
  /\ LET m == loginMatches(req[s].body.emailOrUsername)
     IN  IF m = {}
         THEN Respond(s, 404, [error |-> "User not found"])
         ELSE \E user \in m :
                req' = [req EXCEPT ![s].pc = "compare", ![s].loc = [user |-> user]]
  /\ UNCHANGED <<users, now, clientToken, discarded, mlCalls, app, gen>>

\* findOne resolves; bcrypt.compare is issued
LoginFindOne(s) ==
  /\ req[s].kind = "login" /\ req[s].pc = "findOne"
  /\ LET m == loginMatches(req[s].body.emailOrUsername)
     IN  IF m = {}
         THEN Respond(s, 400, InvalidCredentials)
         ELSE \E user \in m :
                req' = [req EXCEPT ![s].pc = "compare", ![s].loc = [user |-> user]]
  /\ UNCHANGED <<users, now, clientToken, discarded, mlCalls, app, gen>>

\* bcrypt.compare resolves; the token is signed and sent
LoginCompare(s) ==
  /\ req[s].kind = "login" /\ req[s].pc = "compare"
  /\ LET user == req[s].loc.user
     IN  IF ~bcryptCompare(req[s].body.password, user.password)
         THEN Respond(s, 400, InvalidCredentials)
         ELSE Respond(s, 200,
                [message |-> "Login successful!",
                 token |-> jwtSign([userId |-> user.id, username |-> user.username,
                                    email |-> user.email], JWT_SECRET, now),
                 user |-> loginView(user)])
  /\ UNCHANGED <<users, now, clientToken, discarded, mlCalls, app, gen>>

\* the store or the hasher fails while the handler awaits it
LoginFault(s) ==
  /\ req[s].kind = "login" /\ req[s].pc \in {"findOne", "compare"}
  /\ Throw(s, IF req[s].pc = "compare" THEN "hasher" ELSE "store", 500, ServerError)
  /\ UNCHANGED <<users, now, clientToken, discarded, mlCalls, app, gen>>

(***************************************************************************)
(* authenticateToken and GET /api/profile                                  *)
(***************************************************************************)
\* a token that is not a JWT at all
GarbageToken ==
  [wellFormed |-> FALSE,
   payload |-> [userId |-> 0, username |-> <<>>, email |-> <<>>, iat |-> 0, exp |-> 0],
   sig |-> hmac("", [userId |-> 0, username |-> <<>>, email |-> <<>>, iat |-> 0, exp |-> 0])]

\* a token with the claims of t, signed with another key
Forged(t) == [wellFormed |-> TRUE, payload |-> t.payload, sig |-> hmac("other_key", t.payload)]

NoHeader == [present |-> FALSE, words |-> <<>>]
Header(words) == [present |-> TRUE, words |-> words]

\* the Authorization headers a client may send
Headers ==
  {NoHeader, Header(<<"Bearer">>), Header(<<"Bearer", GarbageToken>>)}
  \cup (IF clientToken = NoToken THEN {}
        ELSE {Header(<<"Bearer", clientToken>>), Header(<<"Bearer", Forged(clientToken)>>)})

\* authHeader && authHeader.split(' ')[1] is truthy
hasToken(authHeader) == authHeader.present /\ Len(authHeader.words) >= 2

\* faulty variant: the whole document is returned
profileView_wholeDocument(u) == u

\* faulty variant: createdAt is left out of the view
profileView_noCreatedAt(u) ==
  [id |-> u.id, fullName |-> u.fullName, username |-> u.username, email |-> u.email]

profileView(u) ==
  [id |-> u.id, fullName |-> u.fullName, username |-> u.username, email |-> u.email,
   createdAt |-> u.createdAt]

\* faulty variant: an invalid token is answered like a missing one
ProfileStart_unauthorizedForInvalid(s, authHeader) ==
  /\ req[s].pc \in {"idle", "done"}
  /\ LET fresh == [IdleSlot EXCEPT !.kind = "profile",
                                   !.body = [authorization |-> authHeader]]
     IN  IF ~hasToken(authHeader)
         THEN req' = [req EXCEPT ![s] = [fresh EXCEPT !.pc = "done",
                        !.res = [status |-> 401, body |-> [error |-> "Access token required"]]]]
         ELSE LET v == jwtVerify(authHeader.words[2], JWT_SECRET, now)
              IN  IF v.err # "none"
                  THEN req' = [req EXCEPT ![s] = [fresh EXCEPT !.pc = "done",
                                 !.res = [status |-> 401,
                                          body |-> [error |-> "Access token required"]]]]
                  ELSE req' = [req EXCEPT ![s] = [fresh EXCEPT !.pc = "findById",
                                 !.loc = [user |-> v.user]]]
  /\ UNCHANGED <<users, now, clientToken, discarded, mlCalls, app, gen>>

\* the request passes through authenticateToken; findById is issued
ProfileStart(s, authHeader) ==
  /\ req[s].pc \in {"idle", "done"}
  /\ LET fresh == [IdleSlot EXCEPT !.kind = "profile",
                                   !.body = [authorization |-> authHeader]]
     IN  IF ~hasToken(authHeader)
         THEN req' = [req EXCEPT ![s] = [fresh EXCEPT !.pc = "done",
                        !.res = [status |-> 401, body |-> [error |-> "Access token required"]]]]
         ELSE LET v == jwtVerify(authHeader.words[2], JWT_SECRET, now)
              IN  IF v.err # "none"
                  THEN req' = [req EXCEPT ![s] = [fresh EXCEPT !.pc = "done",
                                 !.res = [status |-> 403,
                                          body |-> [error |-> "Invalid or expired token"]]]]
                  ELSE req' = [req EXCEPT ![s] = [fresh EXCEPT !.pc = "findById",
                                 !.loc = [user |-> v.user]]]
  /\ UNCHANGED <<users, now, clientToken, discarded, mlCalls, app, gen>>

\* User.findById(req.user.userId).select('-password') resolves
ProfileFindById(s) ==
  /\ req[s].kind = "profile" /\ req[s].pc = "findById"
  /\ LET m == {u \in users : u.id = req[s].loc.user.userId}
     IN  IF m = {}
         THEN Respond(s, 404, [error |-> "User not found"])
         ELSE \E user \in m : Respond(s, 200, [user |-> profileView(user)])
  /\ UNCHANGED <<users, now, clientToken, discarded, mlCalls, app, gen>>

ProfileFault(s) ==
  /\ req[s].kind = "profile" /\ req[s].pc = "findById"
  /\ Throw(s, "store", 500, [error |-> "Internal server error"])
  /\ UNCHANGED <<users, now, clientToken, discarded, mlCalls, app, gen>>

(***************************************************************************)
(* The client keeps the token of a successful signup or login.             *)
(***************************************************************************)
\* AuthService.signup / login after a 2xx response: this.user and the two
\* localStorage items (this.token is clientToken)
authStored(a, data) ==
  [a EXCEPT !.user = data.user, !.lsToken = data.token, !.lsUser = JSONstringify(data.user)]

\* faulty variant: logout leaves the user item in localStorage
authCleared_keepsStoredUser(a) ==
  [a EXCEPT !.user = NoUser, !.lsToken = NoToken]

\* AuthService.logout: this.user and the two localStorage items
authCleared(a) ==
  [a EXCEPT !.user = NoUser, !.lsToken = NoToken, !.lsUser = NoItem]

ClientStoreToken(s) ==
  /\ req[s].pc = "done" /\ req[s].res.status \in {200, 201}
  /\ req[s].kind \in {"signup", "login"}
  /\ clientToken # req[s].res.body.token
  /\ clientToken' = req[s].res.body.token
  /\ app' = authStored(app, req[s].res.body)
  /\ UNCHANGED <<users, req, now, discarded, mlCalls, gen>>

\* faulty variant: logging out also removes the accounts on the server
ClientLogout_deletesAccounts ==
  /\ clientToken # NoToken
  /\ clientToken' = NoToken
  /\ discarded' = clientToken
  /\ users' = {}
  /\ app' = authCleared(app)
  /\ UNCHANGED <<req, now, mlCalls, gen>>

\* AuthService.logout: the client forgets its token; discarded remembers the
\* token the client held, which whoever kept a copy may still present
ClientLogout ==
  /\ clientToken # NoToken
  /\ clientToken' = NoToken
  /\ discarded' = clientToken
  /\ app' = authCleared(app)
  /\ UNCHANGED <<users, req, now, mlCalls, gen>>

(***************************************************************************)
(* Specifications.                                                         *)
(***************************************************************************)
Tick ==
  /\ now < MaxTime
  /\ now' = now + 1
  /\ UNCHANGED <<users, req, clientToken, discarded, mlCalls, app, gen>>

\* bodies of the concurrent signup requests: usernames and emails that are
\* identical, that differ in letter case only, and that differ
ConcurrentBodies ==
  {SignupBody(FN_Jo, UN_ab, EM_x, PW_secret1), SignupBody(FN_Jo, UN_Ab, EM_y, PW_secret1),
   SignupBody(FN_Jo, UN_cd, EM_X, PW_secret1), SignupBody(FN_Jo, UN_cd, EM_y, PW_secret1)}

\* concurrent signup requests, one per slot
NextSignup ==
  \E s \in Slots :
    \/ \E body \in ConcurrentBodies : req[s].pc = "idle" /\ SignupStart(s, body)
    \/ SignupFindOne(s)
    \/ SignupHash(s)
    \/ SignupSave(s)
    \/ SignupFault(s)

SpecSignup == Init /\ [][NextSignup]_vars

\* one request at a time, of any kind, while the clock advances
Next ==
  \/ \E body \in SignupBodies : SignupStart(1, body)
  \/ SignupFindOne(1)
  \/ SignupHash(1)
  \/ SignupSave(1)
  \/ SignupFault(1)
  \/ \E body \in LoginBodies : LoginStart(1, body)
  \/ LoginFindOne(1)
  \/ LoginCompare(1)
  \/ LoginFault(1)
  \/ \E authHeader \in Headers : ProfileStart(1, authHeader)
  \/ ProfileFindById(1)
  \/ ProfileFault(1)
  \/ ClientStoreToken(1)
  \/ Tick

Spec == Init /\ [][Next]_vars

(***************************************************************************)
(* The life of a session token: one account, its signup and logins, the    *)
(* profile requests that present a token, logout, and a clock that runs    *)
(* past the expiry of the tokens.                                          *)
(***************************************************************************)
\* a day passes, up to MaxTime days after the first tokens expire
Advance ==
  /\ now < ExpiresInDays + MaxTime
  /\ now' = now + 1
  /\ UNCHANGED <<users, req, clientToken, discarded, mlCalls, app, gen>>

\* a token signed with the key of the server (it is written in the source)
\* for an id that no record has
OrphanToken ==
  jwtSign([userId |-> 0, username |-> UN_cd, email |-> EM_y], JWT_SECRET, now)

\* the Authorization headers presented to the protected route
TokenHeaders ==
  Headers \cup {Header(<<"Bearer", OrphanToken>>)}
  \cup (IF discarded = NoToken THEN {} ELSE {Header(<<"Bearer", discarded, mlCalls>>)})

NextToken ==
  \/ SignupStart(1, SignupBody(FN_Jo, UN_ab, EM_x, PW_secret1))
  \/ SignupFindOne(1)
  \/ SignupHash(1)
  \/ SignupSave(1)
  \/ LoginStart(1, LoginBody(EM_X, PW_secret1))
  \/ LoginFindOne(1)
  \/ LoginCompare(1)
  \/ \E authHeader \in TokenHeaders : ProfileStart(1, authHeader)
  \/ ProfileFindById(1)
  \/ ClientStoreToken(1)
  \/ ClientLogout
  \/ Advance

SpecToken == Init /\ [][NextToken]_vars

(***************************************************************************)
(* Properties of concurrent signups (SpecSignup).                          *)
(***************************************************************************)
SignupDone(s) == req[s].kind = "signup" /\ req[s].pc = "done"

SameUsername(s, t) ==
  toLowerCase(trim(req[s].body.username)) = toLowerCase(trim(req[t].body.username))

SameEmail(s, t) ==
  toLowerCase(trim(req[s].body.email)) = toLowerCase(trim(req[t].body.email))

\* C1: no two stored user records share a username, and no two share an
\* email, where the comparison ignores letter case
C1_UniqueUsernameAndEmail ==
  \A u, v \in users :
    u # v => /\ toLowerCase(u.username) # toLowerCase(v.username)
             /\ toLowerCase(u.email) # toLowerCase(v.email)

\* a record is stored and a signup that collided with it on the email
\* only was turned away by the store
C1_Witness ==
  /\ users # {}
  /\ \E s, t \in Slots :
       /\ SignupDone(s) /\ SignupDone(t)
       /\ req[s].res.status = 201 /\ req[t].res.status = 500 /\ req[t].fault = "none"
       /\ SameEmail(s, t) /\ ~SameUsername(s, t)

\* the signup requests that carry the username of request s
Group(s) == {t \in Slots : req[t].kind = "signup" /\ SameUsername(s, t)}

Winners(s) == {t \in Group(s) : req[t].pc = "done" /\ req[t].res.status = 201}

\* the requests of the group are answered, none met a failure of the store
\* or the hasher, and their emails differ from each other and from every
\* other request's
CleanRace(s) ==
  /\ Cardinality(Group(s)) >= 2
  /\ \A t \in Group(s) : req[t].pc = "done" /\ req[t].fault = "none"
  /\ \A t \in Group(s) : \A r \in Slots \ {t} : req[r].kind = "signup" => ~SameEmail(t, r)

\* C2: of the signup requests that carry the same username, handled in any
\* interleaving, never two succeed; and when they are all answered, with
\* distinct emails and no infrastructure failure, exactly one has succeeded
C2_ExactlyOneWinner ==
  \A s \in Slots :
    req[s].kind = "signup" =>
      /\ Cardinality(Winners(s)) <= 1
      /\ CleanRace(s) => Cardinality(Winners(s)) = 1

\* two requests with the same username and distinct emails were both passed
\* to the store: one created the record, the other was turned away
C2_Witness ==
  \E s, t \in Slots :
    /\ s # t /\ req[s].kind = "signup" /\ CleanRace(s) /\ t \in Group(s)
    /\ req[s].res.status = 201
    /\ req[t].res.status = 500

\* C3: in concurrent signups with an identical username, every attempt other
\* than the winner is answered 400 'Username already taken'
C3_LosersGetDuplicateUsername ==
  \A s, t \in Slots :
    ( /\ s # t /\ SignupDone(s) /\ SignupDone(t)
      /\ req[s].body.username = req[t].body.username
      /\ ~SameEmail(s, t)
      /\ \A r \in Slots \ {t} : req[r].kind = "signup" => ~SameEmail(t, r)
      /\ req[s].res.status = 201
      /\ req[t].fault = "none" )
    => /\ req[t].res.status = 400
       /\ req[t].res.body = [error |-> "Username already taken"]

(***************************************************************************)
(* Properties of signups handled one at a time (Spec).                     *)
(***************************************************************************)
\* the signup of slot s has just been answered
Answered(s) == req'[s].kind = "signup" /\ req'[s].pc = "done" /\ req'[s] # req[s]

\* the body passes the handler's validation
PassesValidation(b) ==
  /\ b.fullName \notin {Undefined, <<>>} /\ b.username \notin {Undefined, <<>>}
  /\ b.email \notin {Undefined, <<>>} /\ b.password \notin {Undefined, <<>>}
  /\ Len(b.password) >= 6

DuplicateEmail == [status |-> 400, body |-> [error |-> "Email already registered"]]
DuplicateUsername == [status |-> 400, body |-> [error |-> "Username already taken"]]

EmailStored(e) == \E u \in users : u.email = e
UsernameStored(n) == \E u \in users : u.username = n

\* C4: for signups handled one after the other, a signup that reuses the
\* email of an existing record with a different username is answered
\* DuplicateEmail, one that reuses the username of an existing record with a
\* different email is answered DuplicateUsername, and neither adds a record
\* (usernames and emails are the same when they agree ignoring case)
C4_SequentialDuplicates ==
  [][\A s \in Slots :
       (Answered(s) /\ PassesValidation(req'[s].body) /\ req'[s].fault = "none") =>
         LET email == toLowerCase(trim(req'[s].body.email))
             username == toLowerCase(trim(req'[s].body.username))
         IN  /\ (EmailStored(email) /\ ~UsernameStored(username))
                 => (req'[s].res = DuplicateEmail /\ users' = users)
             /\ (UsernameStored(username) /\ ~EmailStored(email))
                 => (req'[s].res = DuplicateUsername /\ users' = users)]_vars

\* a stored record, other than the one the signup of slot s created
Others(s) ==
  {u \in users : ~(req[s].res.status = 201 /\ req[s].res.body.user.id = u.id)}

\* C5: whenever the email of a signup is the email of a stored record, the
\* outcome is DuplicateEmail, also when its username is that of another record
C5_EmailTakesPrecedence ==
  \A s \in Slots :
    ( /\ SignupDone(s) /\ PassesValidation(req[s].body) /\ req[s].fault = "none"
      /\ \E u \in Others(s) : u.email = req[s].body.email )
    => req[s].res = DuplicateEmail

\* C6: a signup whose email or username differs from a stored record's only
\* in letter case is answered 400 with the corresponding duplicate outcome
C6_CaseInsensitiveDuplicates ==
  \A s \in Slots :
    ( SignupDone(s) /\ PassesValidation(req[s].body) /\ req[s].fault = "none" ) =>
      LET b == req[s].body
          emailHit == \E u \in Others(s) : u.email = toLowerCase(b.email)
          nameHit == \E u \in Others(s) : u.username = toLowerCase(b.username)
      IN  /\ (emailHit /\ ~nameHit) => req[s].res = DuplicateEmail
          /\ (nameHit /\ ~emailHit) => req[s].res = DuplicateUsername

\* a field of the body is missing or empty, or the password is shorter than 6
C7_Invalid(b) ==
  \/ b.fullName \in {Undefined, <<>>} \/ b.username \in {Undefined, <<>>}
  \/ b.email \in {Undefined, <<>>} \/ b.password \in {Undefined, <<>>}
  \/ Len(b.password) < 6

\* C7: a signup in which a field is empty, or the password is shorter than 6
\* characters, is answered 400 with a validation error; the store is
\* unchanged and the response carries no token
C7_ValidationError ==
  [][\A s \in Slots :
       (Answered(s) /\ C7_Invalid(req'[s].body)) =>
         /\ req'[s].res.status = 400
         /\ req'[s].res.body \in {[error |-> "All fields are required"],
                                  [error |-> "Password must be at least 6 characters long"]}
         /\ users' = users]_vars

\* a signup with a password of 5 characters was answered 400
C7_Witness ==
  \E s \in Slots :
    /\ SignupDone(s) /\ req[s].body.password = PW_short
    /\ req[s].res.status = 400

\* the body satisfies the handler's validation and the schema's required
\* paths: no field is blank
WellFormed(b) ==
  /\ PassesValidation(b)
  /\ trim(b.fullName) # <<>> /\ trim(b.username) # <<>> /\ trim(b.email) # <<>>

\* a stored record has the username or the email of body b, ignoring case
Collides(b) ==
  \E u \in users : \/ u.username = toLowerCase(trim(b.username))
                   \/ u.email = toLowerCase(trim(b.email))

\* C8: a valid signup whose username and email are those of no stored record
\* succeeds, and verifying the token it returns, before it expires, yields
\* claims with the id, username and email of the record it created
C8_DistinctSignupSucceeds ==
  \A s \in Slots :
    ( SignupDone(s) /\ WellFormed(req[s].body) /\ req[s].fault = "none" ) =>
      IF req[s].res.status = 201
      THEN LET v == jwtVerify(req[s].res.body.token, JWT_SECRET, now)
           IN  /\ now < req[s].res.body.token.payload.exp => v.err = "none"
               /\ v.user.userId = req[s].res.body.user.id
               /\ \E u \in users :
                    /\ u.id = v.user.userId
                    /\ u.username = v.user.username /\ u.email = v.user.email
                    /\ u.username = toLowerCase(trim(req[s].body.username))
                    /\ u.email = toLowerCase(trim(req[s].body.email))
      ELSE Collides(req[s].body)

\* a second record was created by a signup and its token is still valid on
\* a later day
C8_Witness ==
  \E s \in Slots :
    /\ SignupDone(s) /\ req[s].res.status = 201
    /\ Cardinality(users) = 2
    /\ now > req[s].res.body.token.payload.iat
    /\ jwtVerify(req[s].res.body.token, JWT_SECRET, now).err = "none"

\* C9: no response of signup, login or profile carries the password or its
\* hash: a response is an error, or a message, a token and a user view, or a
\* user view; the view has the fields id, fullName, username and email, and
\* createdAt for profile; the token carries userId, username, email and its
\* two dates
C9_NoPasswordInResponses ==
  \A s \in Slots :
    req[s].pc = "done" =>
      LET body == req[s].res.body
      IN  /\ \/ DOMAIN body = {"error"}
             \/ DOMAIN body = {"message", "token", "user"} /\ req[s].kind \in {"signup", "login"}
             \/ DOMAIN body = {"user"} /\ req[s].kind = "profile"
          /\ "user" \in DOMAIN body =>
               DOMAIN body.user = IF req[s].kind = "profile"
                                  THEN {"id", "fullName", "username", "email", "createdAt"}
                                  ELSE {"id", "fullName", "username", "email"}
          /\ "token" \in DOMAIN body =>
               DOMAIN body.token.payload = {"userId", "username", "email", "iat", "exp"}

\* a profile request was answered with the user view of a stored record
C9_Witness ==
  \E s \in Slots :
    /\ req[s].kind = "profile" /\ req[s].pc = "done" /\ req[s].res.status = 200
    /\ \E u \in users : u.id = req[s].res.body.user.id

\* C10: the password field of every stored record is the bcrypt hash, with
\* 12 rounds, of the password submitted by the signup that created it, and
\* never that password itself
C10_PasswordsStoredHashed ==
  \A u \in users :
    \E s \in Slots :
      /\ SignupDone(s) /\ req[s].res.status = 201 /\ req[s].res.body.user.id = u.id
      /\ u.password.alg = "2a" /\ u.password.cost = 12
      /\ u.password.digest = <<"H", u.password.salt, req[s].body.password>>
      /\ u.password.digest # req[s].body.password

\* two records are stored, each with the hash of its signup's password
C10_Witness ==
  /\ Cardinality(users) = 2
  /\ \A s \in Slots : SignupDone(s) /\ req[s].res.status = 201

(***************************************************************************)
(* Properties of login.                                                    *)
(***************************************************************************)
\* signups accepted by the handler, which checks neither the form of a
\* username nor that of an email: the username of the second is the email of
\* the first, up to letter case
CrossSignupBodies ==
  {SignupBody(FN_Jo, UN_Ab, EM_X, PW_secret1), SignupBody(FN_Jo, EM_x, EM_y, PW_Secret1)}

CrossLoginBodies ==
  {LoginBody(i, p) : i \in {UN_ab, UN_Ab, UN_cd, EM_x, EM_X, EM_y},
                     p \in {PW_secret1, PW_Secret1}}

NextLogin ==
  \/ \E body \in CrossSignupBodies : SignupStart(1, body)
  \/ SignupFindOne(1)
  \/ SignupHash(1)
  \/ SignupSave(1)
  \/ \E body \in CrossLoginBodies : LoginStart(1, body)
  \/ LoginFindOne(1)
  \/ LoginCompare(1)
  \/ Tick

SpecLogin == Init /\ [][NextLogin]_vars

\* a login that was answered without a failure of the store or the hasher
LoginDone(s) == req[s].kind = "login" /\ req[s].pc = "done" /\ req[s].fault = "none"

\* the identifier equals the username or the email of u ignoring letter case
Identifies(i, u) ==
  \/ toLowerCase(i) = toLowerCase(u.username)
  \/ toLowerCase(i) = toLowerCase(u.email)

\* the password the signup of u submitted
SignupPassword(u) == u.password.digest[3]

Identified(s) == {u \in users : Identifies(req[s].body.emailOrUsername, u)}

\* C12: a login whose identifier names no stored user and a login whose
\* identifier names a stored user but whose password is wrong receive the
\* same response: status 400 with the body 'Invalid credentials'
C12_SameResponseForUnknownAndWrongPassword ==
  \A s \in Slots :
    ( /\ LoginDone(s)
      /\ ~Falsy(req[s].body.emailOrUsername) /\ ~Falsy(req[s].body.password)
      /\ \/ Identified(s) = {}
         \/ \A u \in Identified(s) : req[s].body.password # SignupPassword(u) ) =>
      req[s].res = [status |-> 400, body |-> InvalidCredentials]

\* a login with the identifier of a stored user and a wrong password was answered
C12_Witness ==
  \E s \in Slots :
    /\ LoginDone(s) /\ ~Falsy(req[s].body.password)
    /\ Identified(s) # {}
    /\ \A u \in Identified(s) : req[s].body.password # SignupPassword(u)


(***************************************************************************)
(* Properties of session tokens and the protected route (SpecToken).       *)
(***************************************************************************)
\* this step is the arrival of a profile request in slot s
Arrives(s) ==
  /\ req[s].pc \in {"idle", "done"}
  /\ req'[s] # req[s]
  /\ req'[s].kind = "profile"

\* the Authorization header and the token of the profile request in slot s
AuthHeader(r) == r.body.authorization
Presented(r) == AuthHeader(r).words[2]

\* the tokens a signup or a login issued to the client
Issued == {clientToken, discarded} \ {NoToken}

Malformed(tok) == ~tok.wellFormed
WronglySigned(tok) == tok.sig # hmac(JWT_SECRET, tok.payload)
Expired(tok) == now >= tok.payload.exp

\* the request was let through to the handler / answered with this status
LetThrough(r) == r.pc = "findById"
Rejected(r, status) == r.pc = "done" /\ r.res.status = status

\* C13: a token issued at time T is accepted at every request time before
\* T + 7 days and rejected with 403 at every request time after T + 7 days,
\* however often it was presented before; a token appears only in the answer
\* of a signup or a login, and it then expires 7 days after that answer
C13_TokenValidSevenDays ==
  [][\A s \in Slots :
       /\ ( /\ Arrives(s) /\ hasToken(AuthHeader(req'[s]))
            /\ Presented(req'[s]) \in Issued ) =>
            LET T == Presented(req'[s]).payload.iat
            IN  /\ now < T + 7 => LetThrough(req'[s])
                /\ now > T + 7 => Rejected(req'[s], 403)
       /\ Arrives(s) => clientToken' = clientToken /\ discarded' = discarded
       /\ ( /\ req'[s] # req[s]
            /\ "token" \in DOMAIN req'[s].res.body ) =>
            /\ req'[s].kind \in {"signup", "login"}
            /\ req'[s].res.body.token.payload.iat = now
            /\ req'[s].res.body.token.payload.exp = now + 7
     ]_vars

\* an issued token was presented after its expiry and rejected with 403
C13_Witness ==
  \E s \in Slots :
    /\ req[s].kind = "profile" /\ Rejected(req[s], 403)
    /\ hasToken(AuthHeader(req[s]))
    /\ Presented(req[s]) \in Issued
    /\ now > Presented(req[s]).payload.iat + 7

\* C14: a request without a token (no Authorization header, or 'Bearer'
\* alone) is answered 401 and no other request is; a request whose token is
\* malformed, wrongly signed or expired is answered 403 and no other request is
C14_UnauthorizedOrForbidden ==
  [][\A s \in Slots :
       Arrives(s) =>
         LET h == AuthHeader(req'[s])
         IN  /\ Rejected(req'[s], 401) <=> ~hasToken(h)
             /\ Rejected(req'[s], 403) <=>
                  /\ hasToken(h)
                  /\ \/ Malformed(Presented(req'[s]))
                     \/ WronglySigned(Presented(req'[s]))
                     \/ Expired(Presented(req'[s]))
     ]_vars

\* a well-formed token signed with another key was rejected with 403
C14_Witness ==
  \E s \in Slots :
    /\ req[s].kind = "profile" /\ Rejected(req[s], 403)
    /\ hasToken(AuthHeader(req[s]))
    /\ ~Malformed(Presented(req[s])) /\ WronglySigned(Presented(req[s]))

\* C15: a request enters the profile handler only on arrival and only with a
\* token that is well formed, signed by the server and unexpired, and the
\* handler then sees exactly the claims of that token; a request answered 401
\* or 403 is finished on arrival with no claims attached, so the handler and
\* its store read never run for it
C15_HandlerRunsOnlyWhenVerified ==
  [][\A s \in Slots :
       /\ ( LetThrough(req'[s]) /\ req'[s] # req[s] ) =>
            /\ Arrives(s)
            /\ hasToken(AuthHeader(req'[s]))
            /\ ~Malformed(Presented(req'[s]))
            /\ ~WronglySigned(Presented(req'[s]))
            /\ ~Expired(Presented(req'[s]))
            /\ req'[s].loc = [user |-> Presented(req'[s]).payload]
       /\ ( /\ Arrives(s)
            /\ (Rejected(req'[s], 401) \/ Rejected(req'[s], 403)) ) =>
            /\ req'[s].loc = NoLocals
            /\ users' = users
     ]_vars

\* the handler is running with the claims of the client's own token
C15_Witness ==
  \E s \in Slots :
    /\ req[s].kind = "profile" /\ LetThrough(req[s])
    /\ clientToken # NoToken
    /\ req[s].loc.user = clientToken.payload

\* C16: a profile request with a valid token is answered 404 when no stored
\* record has the token's userId, and otherwise 200 with the view (id,
\* fullName, username, email, createdAt) of the record that has it
C16_ProfileNotFoundOrView ==
  \A s \in Slots :
    ( /\ req[s].kind = "profile" /\ req[s].pc = "done" /\ req[s].fault = "none"
      /\ req[s].res.status \notin {401, 403} ) =>
      LET m == {u \in users : u.id = Presented(req[s]).payload.userId}
      IN  IF m = {}
          THEN req[s].res = [status |-> 404, body |-> [error |-> "User not found"]]
          ELSE \E u \in m :
                 req[s].res =
                   [status |-> 200,
                    body |-> [user |-> [id |-> u.id, fullName |-> u.fullName,
                                        username |-> u.username, email |-> u.email,
                                        createdAt |-> u.createdAt]]]

\* a valid token for an id that no record has was answered 404, with a record stored
C16_Witness ==
  \E s \in Slots :
    /\ req[s].kind = "profile" /\ Rejected(req[s], 404)
    /\ users # {}

\* C18: a logout changes neither the stored users nor any request nor the
\* clock, and the token the client held is let through by the middleware
\* whenever it is presented before its expiry
C18_LogoutIsClientOnly ==
  [][/\ ( clientToken # NoToken /\ clientToken' = NoToken ) =>
          /\ users' = users /\ req' = req /\ now' = now
          /\ discarded' = clientToken
     /\ \A s \in Slots :
          ( /\ Arrives(s) /\ hasToken(AuthHeader(req'[s]))
            /\ discarded # NoToken /\ clientToken = NoToken
            /\ Presented(req'[s]) = discarded
            /\ now < discarded.payload.exp ) => LetThrough(req'[s])
     ]_vars

\* after the logout the discarded token was presented and the profile returned
C18_Witness ==
  \E s \in Slots :
    /\ clientToken = NoToken /\ discarded # NoToken
    /\ req[s].kind = "profile" /\ Rejected(req[s], 200)
    /\ Presented(req[s]) = discarded


(***************************************************************************)
(* Properties of the stored records and of failures (Spec).                *)
(***************************************************************************)
\* C17: no step removes or alters a stored record, and the only step that
\* changes the set of records is the one that answers a signup with 201,
\* which adds one record with an id no record had; so login, profile, token
\* verification and every signup answered otherwise leave the records as they are
C17_RecordsOnlyAddedBySignup ==
  [][/\ users \subseteq users'
     /\ users' # users =>
          \E s \in Slots :
            /\ req[s].kind = "signup" /\ req[s].pc = "save"
            /\ req'[s].pc = "done" /\ req'[s].res.status = 201
            /\ \E u \in users' \ users :
                 /\ users' = users \cup {u}
                 /\ \A v \in users : v.id # u.id
     ]_vars

\* a record is stored and a login and a failed signup have since been answered
C17_Witness ==
  /\ users # {}
  /\ \E s \in Slots :
       /\ req[s].pc = "done"
       /\ \/ req[s].kind = "login"
          \/ req[s].kind = "profile"
          \/ req[s].kind = "signup" /\ req[s].res.status # 201

\* the step in which the store or the hasher fails under the request in slot s
Fails(s) == req'[s] # req[s] /\ req'[s].fault # "none"

GenericErrors ==
  {[error |-> "Internal server error. Please try again."],
   [error |-> "Internal server error"]}

\* C19: when the store or the hasher fails under a signup, login or profile
\* request that was not yet answered, the request is answered once, with
\* status 500 and a body that is a generic error message and nothing else
\* (no detail, no token), no record is written, and the slot is free again
\* so that the server accepts the next request
C19_FailureIsGeneric500 ==
  [][\A s \in Slots :
       Fails(s) =>
         /\ req[s].kind \in {"signup", "login", "profile"}
         /\ req[s].pc \notin {"idle", "done"} /\ req[s].res = NoResponse
         /\ req'[s].pc = "done"
         /\ req'[s].res.status = 500
         /\ req'[s].res.body \in GenericErrors
         /\ users' = users /\ clientToken' = clientToken
     ]_vars

\* the hasher failed under a login while a record was stored
C19_Witness ==
  \E s \in Slots :
    /\ req[s].kind = "login" /\ req[s].pc = "done" /\ req[s].fault = "hasher"
    /\ req[s].res.status = 500
    /\ users # {}


(***************************************************************************)
(* POST /api/ml/generate-house, as app.post in server.js and as            *)
(* router.post in routes/ml.js: the backend forwards the description to    *)
(* the ML service with one axios.post and relays the outcome.  mlCalls[s]  *)
(* counts the calls made to the ML service for the request in slot s.      *)
(***************************************************************************)
Routes == {"server.js", "routes/ml.js"}

\* the timeout, in milliseconds, given to axios.post by each route
TimeoutServerJs == 60000
TimeoutRouter == 300000
mlTimeout(route) == IF route = "server.js" THEN TimeoutServerJs ELSE TimeoutRouter

Desc_villa == <<"v", "i", "l", "l", "a">>

GenerateBody(d) == [description |-> d, style |-> Undefined, floors |-> Undefined]
GenerateBodies == {GenerateBody(d) : d \in {Undefined, <<>>, Desc_villa}}

\* what the ML service answers (response.data) and how a call fails
MLAnswers == {[success |-> TRUE, data |-> "house"], [success |-> FALSE, error |-> "failed"]}
MLErrors == {"ECONNREFUSED", "ECONNABORTED", "ERR_BAD_RESPONSE"}

\* the Authorization headers sent with a generate-house request
MLHeaders == {NoHeader, Header(<<"Bearer", GarbageToken>>), Header(<<"Bearer", OrphanToken>>)}

\* the request arrives, with no middleware in front of the handler, which
\* does not read the Authorization header; without a description it is
\* answered at once, otherwise axios.post is issued
GenerateStart(s, route, authHeader, body) ==
  /\ req[s].pc \in {"idle", "done"}
  /\ LET fresh == [IdleSlot EXCEPT !.kind = "generate",
                                   !.body = [route |-> route, authorization |-> authHeader,
                                             description |-> body.description]]
     IN  IF Falsy(body.description)
         THEN /\ req' = [req EXCEPT ![s] = [fresh EXCEPT !.pc = "done",
                           !.res = [status |-> 400,
                                    body |-> [success |-> FALSE,
                                              message |-> "House description is required"]]]]
              /\ mlCalls' = [mlCalls EXCEPT ![s] = 0]
         ELSE /\ req' = [req EXCEPT ![s] = [fresh EXCEPT !.pc = "mlCall",
                           !.loc = [url |-> "/generate", description |-> body.description,
                                    timeout |-> mlTimeout(route)]]]
              /\ mlCalls' = [mlCalls EXCEPT ![s] = 1]
  /\ UNCHANGED <<users, now, clientToken, discarded, app, gen>>

\* axios.post resolves with the answer of the ML service
GenerateResolve(s, data) ==
  /\ req[s].kind = "generate" /\ req[s].pc = "mlCall"
  /\ IF data.success
     THEN Respond(s, 200, [success |-> TRUE, message |-> "House generated successfully",
                           data |-> data.data])
     ELSE Respond(s, 500, [success |-> FALSE, message |-> "House generation failed",
                           error |-> data.error])
  /\ UNCHANGED <<users, now, clientToken, discarded, mlCalls, app, gen>>

\* faulty variant: a failed call is issued again once before the caller is answered
GenerateReject_retriesOnce(s, err) ==
  /\ req[s].kind = "generate" /\ req[s].pc = "mlCall"
  /\ IF mlCalls[s] < 2
     THEN /\ mlCalls' = [mlCalls EXCEPT ![s] = @ + 1]
          /\ UNCHANGED req
     ELSE /\ Throw(s, "ml", 500, [success |-> FALSE,
                                  message |-> "Server error during house generation",
                                  error |-> err])
          /\ UNCHANGED mlCalls
  /\ UNCHANGED <<users, now, clientToken, discarded, app, gen>>

\* axios.post rejects: no connection, the timeout passed, or an error status
GenerateReject(s, err) ==
  /\ req[s].kind = "generate" /\ req[s].pc = "mlCall"
  /\ Throw(s, "ml", 500, [success |-> FALSE,
                          message |-> "Server error during house generation",
                          error |-> err])
  /\ UNCHANGED <<users, now, clientToken, discarded, mlCalls, app, gen>>

NextML ==
  \E s \in Slots :
    \/ \E route \in Routes, authHeader \in MLHeaders, body \in GenerateBodies :
         GenerateStart(s, route, authHeader, body)
    \/ \E data \in MLAnswers : GenerateResolve(s, data)
    \/ \E err \in MLErrors : GenerateReject(s, err)

SpecML == Init /\ [][NextML]_vars

\* C20: for each generate-house request the ML service is called at most
\* once: a call is made only when a request with a description arrives; a
\* request without a description is answered 400 with no call; and when the
\* call fails, times out or reports failure, the very step that learns it
\* answers the caller with status 500 and success false, without another call
C20_AtMostOneMLCall ==
  [][\A s \in Slots :
       /\ mlCalls'[s] <= 1
       /\ mlCalls'[s] > mlCalls[s] =>
            /\ req[s].pc \in {"idle", "done"}
            /\ req'[s].pc = "mlCall"
            /\ ~Falsy(req'[s].body.description)
       /\ ( /\ req[s].pc \in {"idle", "done"} /\ req'[s] # req[s]
            /\ req'[s].kind = "generate" /\ Falsy(req'[s].body.description) ) =>
            /\ req'[s].pc = "done" /\ req'[s].res.status = 400
            /\ req'[s].res.body.success = FALSE
            /\ mlCalls'[s] = 0
       /\ ( /\ req[s].kind = "generate" /\ req[s].pc = "mlCall"
            /\ <<req'[s], mlCalls'[s]>> # <<req[s], mlCalls[s]>> ) =>
            /\ req'[s].pc = "done"
            /\ mlCalls'[s] = mlCalls[s]
            /\ req'[s].res.status # 200 =>
                 /\ req'[s].res.status = 500
                 /\ req'[s].res.body.success = FALSE
     ]_vars

\* the call to the ML service timed out and the caller was answered after one call
C20_Witness ==
  \E s \in Slots :
    /\ req[s].kind = "generate" /\ req[s].pc = "done" /\ req[s].fault = "ml"
    /\ req[s].res.body.error = "ECONNABORTED"
    /\ mlCalls[s] = 1


(***************************************************************************)
(* The format checks of the frontend AuthService, which the signup form    *)
(* applies before it sends a request.                                      *)
(***************************************************************************)
\* [a-zA-Z0-9_] over the characters the request bodies use
WordChars ==
  {"a", "b", "c", "d", "e", "i", "l", "m", "o", "r", "s", "t", "v", "x", "y",
   "A", "B", "C", "D", "J", "S", "X", "Y", "1", "2", "_"}

\* \s
WhiteSpace == {" "}

\* /^[a-zA-Z0-9_]{3,20}$/.test(username)
isValidUsername(username) ==
  /\ Len(username) >= 3 /\ Len(username) <= 20
  /\ \A i \in 1..Len(username) : username[i] \in WordChars

\* [^\s@]+ matches all of s[from..to]
NoSpaceNoAt(s, from, to) ==
  /\ from <= to
  /\ \A i \in from..to : s[i] \notin WhiteSpace /\ s[i] # "@"

\* /^[^\s@]+@[^\s@]+\.[^\s@]+$/.test(email)
isValidEmail(email) ==
  \E at \in 1..Len(email), dot \in 1..Len(email) :
    /\ email[at] = "@" /\ email[dot] = "."
    /\ NoSpaceNoAt(email, 1, at - 1)
    /\ NoSpaceNoAt(email, at + 1, dot - 1)
    /\ NoSpaceNoAt(email, dot + 1, Len(email))

\* C21: every stored user record has a username of 3 to 20 characters drawn
\* from letters, digits and underscore and an email of the basic email shape
C21_StoredNamesWellFormed ==
  \A u \in users : isValidUsername(u.username) /\ isValidEmail(u.email)


\* C22: the ML service is called for a generate-house request only when the
\* request carries a token that is well formed, signed by the server and
\* unexpired
C22_MLCallsOnlyWhenAuthenticated ==
  \A s \in Slots :
    ( req[s].kind = "generate" /\ mlCalls[s] >= 1 ) =>
      /\ hasToken(AuthHeader(req[s]))
      /\ ~Malformed(Presented(req[s]))
      /\ ~WronglySigned(Presented(req[s]))
      /\ ~Expired(Presented(req[s]))


(***************************************************************************)
(* The frontend application: App (App.js), the Signup form (Signup.js),    *)
(* the Login form and AuthService, talking to the server through slot 1.   *)
(* A call of AuthService empties the slot and puts its request in          *)
(* app.sent; the request then arrives at the server, the handler runs, and *)
(* the continuation of the call runs when the response is there or when    *)
(* fetch rejects.                                                          *)
(***************************************************************************)
UN_Abc == <<"A", "b", "c">>
UN_c_d == <<"c", "_", "d">>
EM_Xmc == <<"X", "@", "m", ".", "c">>
EM_ymc == <<"y", "@", "m", ".", "c">>

SignupForm(f, u, e, p, c) ==
  [fullName |-> f, username |-> u, email |-> e, password |-> p, confirmPassword |-> c]

\* what the user typed into the signup form
SignupForms ==
  {SignupForm(FN_Jo, UN_Abc, EM_Xmc, PW_secret1, PW_secret1),
   SignupForm(FN_Jo, UN_c_d, EM_ymc, PW_secret1, PW_secret1),
   SignupForm(FN_Jo, UN_ab, EM_Xmc, PW_secret1, PW_secret1),
   SignupForm(FN_Jo, UN_Abc, EM_x, PW_secret1, PW_secret1),
   SignupForm(FN_Jo, UN_Abc, EM_Xmc, PW_secret1, PW_Secret1)}

\* what the user typed into the login form
LoginForms ==
  {LoginBody(i, p) : i \in {<<>>, UN_Abc, EM_ymc}, p \in {PW_secret1, PW_Secret1}}

isValidPassword(password) == Len(password) >= 6

\* Signup.validateForm
validateForm(formData) ==
  /\ ~Falsy(formData.fullName) /\ Len(trim(formData.fullName)) >= 2
  /\ isValidUsername(formData.username)
  /\ isValidEmail(formData.email)
  /\ isValidPassword(formData.password)
  /\ formData.password = formData.confirmPassword

\* AuthService.isAuthenticated
isAuthenticated == clientToken # NoToken /\ app.user # NoUser

\* response.ok
ResponseOk(res) == res.status >= 200 /\ res.status <= 299

\* a call of AuthService may start: nothing of the client is in flight and
\* the server is not busy with a request the client gave up
CanCall == app.pc = "ready" /\ ~app.isLoading /\ req[1].pc \in {"idle", "done"}

\* App.checkAuth up to its await: getProfile is called when a session is held
AppCheckAuth ==
  /\ app.pc = "boot" /\ req[1].pc \in {"idle", "done"}
  /\ IF isAuthenticated
     THEN /\ app' = [app EXCEPT !.pc = "checkAuth",
                       !.sent = [authorization |-> Header(<<"Bearer", clientToken>>)]]
          /\ req' = [req EXCEPT ![1] = IdleSlot]
     ELSE /\ app' = [app EXCEPT !.pc = "ready", !.isLoading = FALSE]
          /\ UNCHANGED req
  /\ UNCHANGED <<users, now, clientToken, discarded, mlCalls, gen>>

\* faulty variant: a failed profile fetch leaves the session in place
AppCheckAuthReturns_keepsSession(success) ==
  IF success
  THEN /\ app' = [app EXCEPT !.pc = "ready", !.sent = NoBody, !.isLoading = FALSE,
                    !.appUser = req[1].res.body.user]
       /\ UNCHANGED <<clientToken, discarded>>
  ELSE /\ app' = [app EXCEPT !.pc = "ready", !.sent = NoBody, !.isLoading = FALSE]
       /\ UNCHANGED <<clientToken, discarded>>

\* getProfile returned: success sets the user, anything else logs out; finally
AppCheckAuthReturns(success) ==
  IF success
  THEN /\ app' = [app EXCEPT !.pc = "ready", !.sent = NoBody, !.isLoading = FALSE,
                    !.appUser = req[1].res.body.user]
       /\ UNCHANGED <<clientToken, discarded>>
  ELSE /\ app' = [authCleared(app) EXCEPT !.pc = "ready", !.sent = NoBody,
                    !.isLoading = FALSE]
       /\ clientToken' = NoToken
       /\ discarded' = IF clientToken = NoToken THEN discarded ELSE clientToken

\* the profile response is there
AppCheckAuthDone ==
  /\ app.pc = "checkAuth" /\ req[1].kind = "profile" /\ req[1].pc = "done"
  /\ AppCheckAuthReturns(ResponseOk(req[1].res))
  /\ UNCHANGED <<users, req, now, mlCalls, gen>>

\* Signup.handleSubmit up to its await
AppSubmitSignup(formData) ==
  /\ CanCall /\ app.currentView = "signup"
  /\ IF ~validateForm(formData)
     THEN UNCHANGED <<app, req>>
     ELSE /\ app' = [app EXCEPT !.pc = "signup",
                       !.sent = SignupBody(trim(formData.fullName), trim(formData.username),
                                           toLowerCase(trim(formData.email)),
                                           formData.password)]
          /\ req' = [req EXCEPT ![1] = IdleSlot]
  /\ UNCHANGED <<users, now, clientToken, discarded, mlCalls, gen>>

\* the signup response is there: AuthService.signup stores the session on 2xx,
\* and handleSubmit then calls onSignupSuccess (App.handleSignupSuccess) and
\* sets the 3 s timer that calls onSwitchToLogin
AppSignupDone ==
  /\ app.pc = "signup" /\ req[1].kind = "signup" /\ req[1].pc = "done"
  /\ IF ResponseOk(req[1].res)
     THEN /\ clientToken' = req[1].res.body.token
          /\ app' = [authStored(app, req[1].res.body) EXCEPT !.pc = "ready", !.sent = NoBody,
                       !.appUser = req[1].res.body.user, !.currentView = "dashboard",
                       !.timers = @ + 1]
     ELSE /\ app' = [app EXCEPT !.pc = "ready", !.sent = NoBody]
          /\ UNCHANGED clientToken
  /\ UNCHANGED <<users, req, now, discarded, mlCalls, gen>>

\* the timer set by Signup.handleSubmit fires: onSwitchToLogin()
AppSignupTimerFires ==
  /\ app.timers > 0
  /\ app' = [app EXCEPT !.timers = @ - 1, !.currentView = "login"]
  /\ UNCHANGED <<users, req, now, clientToken, discarded, mlCalls, gen>>

\* Login.handleSubmit up to its await
AppSubmitLogin(formData) ==
  /\ CanCall /\ app.currentView = "login"
  /\ IF Falsy(formData.emailOrUsername) \/ Falsy(formData.password)
     THEN UNCHANGED <<app, req>>
     ELSE /\ app' = [app EXCEPT !.pc = "login", !.sent = formData]
          /\ req' = [req EXCEPT ![1] = IdleSlot]
  /\ UNCHANGED <<users, now, clientToken, discarded, mlCalls, gen>>

\* the login response is there: AuthService.login stores the session on 2xx,
\* and handleSubmit then calls onLoginSuccess (App.handleLoginSuccess)
AppLoginDone ==
  /\ app.pc = "login" /\ req[1].kind = "login" /\ req[1].pc = "done"
  /\ IF ResponseOk(req[1].res)
     THEN /\ clientToken' = req[1].res.body.token
          /\ app' = [authStored(app, req[1].res.body) EXCEPT !.pc = "ready", !.sent = NoBody,
                       !.appUser = req[1].res.body.user, !.currentView = "dashboard"]
     ELSE /\ app' = [app EXCEPT !.pc = "ready", !.sent = NoBody]
          /\ UNCHANGED clientToken
  /\ UNCHANGED <<users, req, now, discarded, mlCalls, gen>>

\* fetch rejects (the server cannot be reached or the response is lost): the
\* call returns {success: false}; for checkAuth that means logout
AppFetchRejects ==
  /\ app.pc \in {"checkAuth", "signup", "login"}
  /\ IF app.pc = "checkAuth"
     THEN AppCheckAuthReturns(FALSE)
     ELSE /\ app' = [app EXCEPT !.pc = "ready", !.sent = NoBody]
          /\ UNCHANGED <<clientToken, discarded>>
  /\ UNCHANGED <<users, req, now, mlCalls, gen>>

\* App.handleLogout, from the Navbar of the home page or from the dashboard
AppLogout ==
  /\ app.pc = "ready" /\ ~app.isLoading
  /\ app.appUser # NoUser /\ app.currentView \in {"home", "dashboard"}
  /\ app' = [authCleared(app) EXCEPT !.appUser = NoUser, !.currentView = "home"]
  /\ clientToken' = NoToken
  /\ discarded' = IF clientToken = NoToken THEN discarded ELSE clientToken
  /\ UNCHANGED <<users, req, now, mlCalls, gen>>

\* handleLogin / handleSignup from the Navbar, and the links between the forms
AppNavigate(view) ==
  /\ app.pc = "ready" /\ ~app.isLoading
  /\ \/ app.currentView = "home" /\ app.appUser = NoUser /\ view \in {"login", "signup"}
     \/ app.currentView = "login" /\ view = "signup"
     \/ app.currentView = "signup" /\ view = "login"
  /\ app' = [app EXCEPT !.currentView = view]
  /\ UNCHANGED <<users, req, now, clientToken, discarded, mlCalls, gen>>

\* the page is loaded again: timers are gone, AuthService is constructed from
\* localStorage and App mounts
AppReload ==
  /\ app.pc = "ready"
  /\ app' = AppLoaded(app.lsToken, app.lsUser)
  /\ clientToken' = app.lsToken
  /\ UNCHANGED <<users, req, now, discarded, mlCalls, gen>>

\* the request of the client arrives at the server
NetArrives ==
  /\ req[1].pc = "idle"
  /\ \/ app.pc = "checkAuth" /\ ProfileStart(1, app.sent.authorization)
     \/ app.pc = "signup" /\ SignupStart(1, app.sent)
     \/ app.pc = "login" /\ LoginStart(1, app.sent)

\* the lifetime of a token passes
WeekPasses ==
  /\ now < ExpiresInDays * MaxTime
  /\ now' = now + ExpiresInDays
  /\ UNCHANGED <<users, req, clientToken, discarded, mlCalls, app, gen>>

NextApp ==
  \/ AppCheckAuth
  \/ AppCheckAuthDone
  \/ \E formData \in SignupForms : AppSubmitSignup(formData)
  \/ AppSignupDone
  \/ AppSignupTimerFires
  \/ \E formData \in LoginForms : AppSubmitLogin(formData)
  \/ AppLoginDone
  \/ AppFetchRejects
  \/ AppLogout
  \/ \E view \in {"login", "signup"} : AppNavigate(view)
  \/ AppReload
  \/ NetArrives
  \/ SignupFindOne(1)
  \/ SignupHash(1)
  \/ SignupSave(1)
  \/ LoginFindOne(1)
  \/ LoginCompare(1)
  \/ ProfileFindById(1)
  \/ ProfileFault(1)
  \/ WeekPasses

SpecApp == Init /\ [][NextApp]_vars


(***************************************************************************)
(* Properties of the frontend application (SpecApp).                       *)
(***************************************************************************)
\* C23: once the app shows the dashboard with the user set, the view leaves
\* the dashboard only by a logout (user and session cleared) or by the user
\* loading the page again; no timer or callback moves it elsewhere
C23_DashboardStaysAfterSignup ==
  [][( /\ app.currentView = "dashboard" /\ app.appUser # NoUser
       /\ app'.currentView # "dashboard" ) =>
       \/ app'.appUser = NoUser /\ clientToken' = NoToken /\ app'.currentView = "home"
       \/ app'.pc = "boot"
    ]_vars


\* the startup of the app with the sessions one signup leaves behind
NextBoot ==
  \/ AppCheckAuth
  \/ AppCheckAuthDone
  \/ AppNavigate("signup")
  \/ AppSubmitSignup(SignupForm(FN_Jo, UN_Abc, EM_Xmc, PW_secret1, PW_secret1))
  \/ AppSignupDone
  \/ AppSignupTimerFires
  \/ AppFetchRejects
  \/ AppReload
  \/ NetArrives
  \/ SignupFindOne(1)
  \/ SignupHash(1)
  \/ SignupSave(1)
  \/ ProfileFindById(1)
  \/ ProfileFault(1)
  \/ WeekPasses

SpecBoot == Init /\ [][NextBoot]_vars

\* the steps of the server and of the network are taken when they can be, and
\* so are the steps of checkAuth: a fetch is eventually answered or rejected
SpecBootFair ==
  /\ SpecBoot
  /\ WF_vars(AppCheckAuth)
  /\ WF_vars(AppCheckAuthDone)
  /\ WF_vars(NetArrives)
  /\ WF_vars(SignupFindOne(1)) /\ WF_vars(SignupHash(1)) /\ WF_vars(SignupSave(1))
  /\ WF_vars(ProfileFindById(1))

\* the startup check is over in the next state
CheckAuthEnds == app.pc \in {"boot", "checkAuth"} /\ app'.pc = "ready"

\* C24: the startup check ends, with isLoading false, whether no session is
\* stored, the server accepts the token, the server rejects it or the fetch
\* is rejected; and unless the profile fetch succeeded the token and the
\* user are cleared from AuthService and localStorage and App's user is null
C24_CheckAuthTerminates ==
  /\ [][CheckAuthEnds =>
          /\ ~app'.isLoading
          /\ ( app.pc = "checkAuth" /\ app'.appUser = NoUser ) =>
               /\ clientToken' = NoToken /\ app'.user = NoUser
               /\ app'.lsToken = NoToken /\ app'.lsUser = NoItem
          /\ app'.appUser # NoUser =>
               /\ app.pc = "checkAuth" /\ req[1].res.status = 200
               /\ app'.appUser = req[1].res.body.user
       ]_vars
  /\ (app.isLoading ~> ~app.isLoading)

\* the server rejected the stored token, and the check ended with the session cleared
C24_Witness ==
  /\ app.pc = "ready" /\ ~app.isLoading
  /\ req[1].kind = "profile" /\ req[1].pc = "done" /\ req[1].res.status = 403
  /\ clientToken = NoToken /\ discarded # NoToken /\ app.lsToken = NoToken
  /\ app.appUser = NoUser


\* the tokens the server has issued: those in the answers of signups and
\* logins and those the client received
ServerIssued ==
  Issued \cup {req[s].res.body.token : s \in {t \in Slots : "token" \in DOMAIN req[t].res.body}}

\* C25: every token issued by a signup or a login carries the userId of a
\* stored record, at issuance and ever after, and a profile request that
\* presents an issued token and passes the middleware is never answered 404
C25_IssuedTokensNameStoredUsers ==
  /\ \A tok \in ServerIssued : \E u \in users : u.id = tok.payload.userId
  /\ \A s \in Slots :
       ( /\ req[s].kind = "profile" /\ req[s].pc = "done"
         /\ hasToken(AuthHeader(req[s]))
         /\ Presented(req[s]) \in Issued ) => req[s].res.status # 404

\* a token issued by a login was presented and the profile of its user returned
C25_Witness ==
  \E s \in Slots :
    /\ req[s].kind = "profile" /\ Rejected(req[s], 200)
    /\ Presented(req[s]) \in Issued
    /\ Presented(req[s]).payload.iat > 0
    /\ \E u \in users : u.id = Presented(req[s]).payload.userId


\* the signup in slot s is answered in this step
SignupAnswered(s) ==
  /\ req[s].kind = "signup" /\ req[s].pc \notin {"idle", "done"}
  /\ req'[s].pc = "done"

\* C26: the step that answers a signup answers 201 with a token exactly when
\* it stores one new record, the one the answer describes; a signup answered
\* 400 or 500 stores nothing; and no step stores more than one record or
\* stores one without answering a signup 201
C26_CreatedIffOneRecordStored ==
  [][/\ \A s \in Slots :
          SignupAnswered(s) =>
            /\ req'[s].res.status \in {201, 400, 500}
            /\ req'[s].res.status = 201 <=> users' # users
            /\ req'[s].res.status = 201 =>
                 /\ "token" \in DOMAIN req'[s].res.body
                 /\ \E u \in users' \ users :
                      /\ users' = users \cup {u}
                      /\ u.id = req'[s].res.body.user.id
                      /\ u.id = req'[s].res.body.token.payload.userId
            /\ req'[s].res.status # 201 => "token" \notin DOMAIN req'[s].res.body
     /\ users' # users =>
          /\ Cardinality(users' \ users) = 1
          /\ \E s \in Slots : SignupAnswered(s) /\ req'[s].res.status = 201
    ]_vars

\* of two racing signups one was answered 201 and the other 500, with one record stored
C26_Witness ==
  /\ Cardinality(users) = 1
  /\ \E s, t \in Slots :
       /\ SignupDone(s) /\ req[s].res.status = 201
       /\ SignupDone(t) /\ req[t].res.status = 500 /\ req[t].fault = "none"


\* the in-memory session of AuthService equals what localStorage holds
SessionMirrorsStorage ==
  /\ clientToken = app.lsToken
  /\ app.user = JSONparse(app.lsUser)

\* a call of AuthService.signup or login returns in this step
AuthCallReturns == app.pc \in {"signup", "login"} /\ app'.pc = "ready"

\* C27: the token and user of AuthService always equal the values in
\* localStorage, and isAuthenticated() holds exactly when both are set; a
\* signup or login that fails (error response or rejected fetch) leaves token
\* and user as they were, one that succeeds sets them to the values of the
\* response; and a logout clears token and user
C27_AuthServiceMirrorsStorage ==
  /\ [](/\ SessionMirrorsStorage
        /\ isAuthenticated <=> (app.lsToken # NoToken /\ app.lsUser # NoItem))
  /\ [][/\ AuthCallReturns =>
             \/ clientToken' = clientToken /\ app'.user = app.user
             \/ /\ req[1].pc = "done" /\ ResponseOk(req[1].res)
                /\ clientToken' = req[1].res.body.token
                /\ app'.user = req[1].res.body.user
        /\ ( AuthCallReturns /\ ~(req[1].pc = "done" /\ ResponseOk(req[1].res)) ) =>
             clientToken' = clientToken /\ app'.user = app.user
        /\ ( app.pc = "ready" /\ app'.pc = "ready"
             /\ app.appUser # NoUser /\ app'.appUser = NoUser ) =>
             clientToken' = NoToken /\ app'.user = NoUser
       ]_vars

\* a login failed while a session was held, and the session is still there
C27_Witness ==
  /\ app.pc = "ready"
  /\ req[1].kind = "login" /\ req[1].pc = "done" /\ req[1].res.status = 400
  /\ clientToken # NoToken /\ app.user # NoUser


(***************************************************************************)
(* POST /api/ml/bulk-generate (routes/ml.js): the descriptions come from   *)
(* an uploaded file or from the body, and the handler calls the ML service *)
(* for one description after the other, awaiting each call.                *)
(***************************************************************************)
MaxBatch == 3

Desc_hut == <<"h", "u", "t">>
Desc_padded == <<" ", "h", "u", "t">>

\* sequences of at most n descriptions
RECURSIVE Batches(_)
Batches(n) ==
  IF n = 0 THEN {<<>>}
  ELSE LET shorter == Batches(n - 1)
       IN  shorter \cup {Append(b, d) : b \in {c \in shorter : Len(c) = n - 1},
                                         d \in {Desc_villa, Desc_padded, Blank}}

\* what the request carries: a file of lines, or descriptions in the body
\* (an array or a single string), or neither
BulkInputs ==
  {[kind |-> "file", lines |-> b] : b \in Batches(MaxBatch)}
  \cup {[kind |-> "array", items |-> b] : b \in Batches(MaxBatch)}
  \cup {[kind |-> "string", value |-> v] : v \in {<<>>, Desc_hut}}
  \cup {[kind |-> "absent"]}

\* lines.filter(line => line.trim())
RECURSIVE filterNonBlank(_)
filterNonBlank(lines) ==
  IF lines = <<>> THEN <<>>
  ELSE IF trim(Head(lines)) = <<>> THEN filterNonBlank(Tail(lines))
  ELSE <<Head(lines)>> \o filterNonBlank(Tail(lines))

\* a non-empty array is truthy, and so is an empty one; '' is falsy
hasDescriptions(input) ==
  \/ input.kind \in {"file", "array"}
  \/ input.kind = "string" /\ ~Falsy(input.value)

\* the list the handler builds before its loop
bulkDescriptions(input) ==
  IF input.kind = "file" THEN filterNonBlank(input.lines)
  ELSE IF input.kind = "array" THEN input.items
  ELSE <<input.value>>

\* the loop skips blank descriptions: the next index (1-based) after i for
\* which a call is made, or 0 when the loop ends
nextCall(descriptions, i) ==
  LET later == {j \in (i + 1)..Len(descriptions) : trim(descriptions[j]) # <<>>}
  IN  IF later = {} THEN 0 ELSE CHOOSE j \in later : \A k \in later : j <= k

bulkSummary(descriptions, results, errors) ==
  [success |-> TRUE, results |-> results, errors |-> errors,
   summary |-> [total |-> Len(descriptions), successful |-> Len(results),
                failed |-> Len(errors)]]

\* the loop runs from index i to its next await, or to the response; n calls
\* were made for the request so far
BulkContinue(s, slot, n, descriptions, i, results, errors) ==
  LET j == nextCall(descriptions, i)
  IN  IF j = 0
      THEN /\ req' = [req EXCEPT ![s] = [slot EXCEPT !.pc = "done", !.loc = NoLocals,
                         !.res = [status |-> 200,
                                  body |-> bulkSummary(descriptions, results, errors)]]]
           /\ mlCalls' = [mlCalls EXCEPT ![s] = n]
      ELSE /\ req' = [req EXCEPT ![s] = [slot EXCEPT !.pc = "bulkCall",
                         !.loc = [descriptions |-> descriptions, i |-> j,
                                  results |-> results, errors |-> errors]]]
           /\ mlCalls' = [mlCalls EXCEPT ![s] = n + 1]

\* the request arrives
BulkStart(s, input) ==
  /\ req[s].pc \in {"idle", "done"}
  /\ LET fresh == [IdleSlot EXCEPT !.kind = "bulk", !.body = input]
     IN  IF ~hasDescriptions(input)
         THEN /\ req' = [req EXCEPT ![s] = [fresh EXCEPT !.pc = "done",
                           !.res = [status |-> 400,
                                    body |-> [success |-> FALSE,
                                              message |-> "No descriptions provided"]]]]
              /\ mlCalls' = [mlCalls EXCEPT ![s] = 0]
         ELSE BulkContinue(s, fresh, 0, bulkDescriptions(input), 0, <<>>, <<>>)
  /\ UNCHANGED <<users, now, clientToken, discarded, app, gen>>

\* axios.post resolves for description i: results or errors gets the entry
BulkResolve(s, data) ==
  /\ req[s].kind = "bulk" /\ req[s].pc = "bulkCall"
  /\ LET l == req[s].loc
         description == trim(l.descriptions[l.i])
     IN  IF data.success
         THEN BulkContinue(s, req[s], mlCalls[s], l.descriptions, l.i,
                Append(l.results, [index |-> l.i, description |-> description,
                                   data |-> data.data]),
                l.errors)
         ELSE BulkContinue(s, req[s], mlCalls[s], l.descriptions, l.i, l.results,
                Append(l.errors, [index |-> l.i, description |-> description,
                                  error |-> data.error]))
  /\ UNCHANGED <<users, now, clientToken, discarded, app, gen>>

\* faulty variant: a failed call ends the loop
BulkReject_stopsAtFailure(s, err) ==
  /\ req[s].kind = "bulk" /\ req[s].pc = "bulkCall"
  /\ LET l == req[s].loc
     IN  BulkContinue(s, req[s], mlCalls[s], l.descriptions, Len(l.descriptions), l.results,
           Append(l.errors, [index |-> l.i, description |-> l.descriptions[l.i],
                             error |-> err]))
  /\ UNCHANGED <<users, now, clientToken, discarded, app, gen>>

\* axios.post rejects for description i: the inner catch records the error
\* and the loop goes on
BulkReject(s, err) ==
  /\ req[s].kind = "bulk" /\ req[s].pc = "bulkCall"
  /\ LET l == req[s].loc
     IN  BulkContinue(s, req[s], mlCalls[s], l.descriptions, l.i, l.results,
           Append(l.errors, [index |-> l.i, description |-> l.descriptions[l.i],
                             error |-> err]))
  /\ UNCHANGED <<users, now, clientToken, discarded, app, gen>>

NextBulk ==
  \/ \E input \in BulkInputs : BulkStart(1, input)
  \/ \E data \in MLAnswers : BulkResolve(1, data)
  \/ \E err \in {"ECONNREFUSED", "ECONNABORTED"} : BulkReject(1, err)

SpecBulk == Init /\ [][NextBulk]_vars

\* the 1-based positions of the non-blank descriptions
NonBlank(descriptions) ==
  {j \in 1..Len(descriptions) : trim(descriptions[j]) # <<>>}

\* the entries of results and errors, and those with an index up to i
Entries(results, errors) ==
  {results[k] : k \in 1..Len(results)} \cup {errors[k] : k \in 1..Len(errors)}

Increasing(entries) ==
  \A k \in 1..Len(entries) : \A m \in 1..Len(entries) :
    k < m => entries[k].index < entries[m].index

\* C28: a bulk request calls the ML service for one non-blank description at
\* a time, in input order, once each, whatever the earlier calls gave; when
\* it is answered, every non-blank description has one entry, in results or
\* in errors, under its 1-based position, so that successful + failed is the
\* number of non-blank descriptions and at most total
C28_BulkProcessesEachOnce ==
  /\ [](\A s \in Slots :
          /\ ( req[s].kind = "bulk" /\ req[s].pc = "bulkCall" ) =>
               LET l == req[s].loc
                   handled == {j \in NonBlank(l.descriptions) : j < l.i}
               IN  /\ l.i \in NonBlank(l.descriptions)
                   /\ mlCalls[s] = Cardinality(handled) + 1
                   /\ {e.index : e \in Entries(l.results, l.errors)} = handled
                   /\ Len(l.results) + Len(l.errors) = Cardinality(handled)
          /\ ( req[s].kind = "bulk" /\ req[s].pc = "done" /\ req[s].res.status = 200 ) =>
               LET descriptions == bulkDescriptions(req[s].body)
                   b == req[s].res.body
               IN  /\ mlCalls[s] = Cardinality(NonBlank(descriptions))
                   /\ {e.index : e \in Entries(b.results, b.errors)} = NonBlank(descriptions)
                   /\ Increasing(b.results) /\ Increasing(b.errors)
                   /\ b.summary.successful = Len(b.results)
                   /\ b.summary.failed = Len(b.errors)
                   /\ b.summary.successful + b.summary.failed
                        = Cardinality(NonBlank(descriptions))
                   /\ b.summary.total = Len(descriptions)
                   /\ b.summary.successful + b.summary.failed <= b.summary.total
                   /\ \A e \in Entries(b.results, b.errors) :
                        trim(e.description) = trim(descriptions[e.index]))
  /\ [][\A s \in Slots :
          ( req[s].kind = "bulk" /\ req[s].pc = "bulkCall" /\ req'[s] # req[s] ) =>
            \/ req'[s].pc = "done" /\ nextCall(req[s].loc.descriptions, req[s].loc.i) = 0
            \/ /\ req'[s].pc = "bulkCall"
               /\ req'[s].loc.i = nextCall(req[s].loc.descriptions, req[s].loc.i)
               /\ mlCalls'[s] = mlCalls[s] + 1
       ]_vars

\* a batch with a blank in the middle was answered after a failed first call
\* and a successful last one
C28_Witness ==
  \E s \in Slots :
    /\ req[s].kind = "bulk" /\ req[s].pc = "done" /\ req[s].res.status = 200
    /\ req[s].res.body.summary = [total |-> 3, successful |-> 1, failed |-> 1]
    /\ req[s].res.body.errors[1].index = 1
    /\ req[s].res.body.results[1].index = 3


(***************************************************************************)
(* The generator components.  MLGenerator starts a generation with         *)
(* generateHouse and generateExample, AakarDashboard with handleTextSubmit *)
(* (and, without any request, handleImageSubmit and handleVideoSubmit).    *)
(* Each handler sets isGenerating before its await and clears it in its    *)
(* finally block; every control that starts a handler is rendered disabled *)
(* while isGenerating, and React renders the state set in an event handler *)
(* before the next event is delivered.                                     *)
(***************************************************************************)

\* the slot in which the server handles the request of a component
slotOf(c) == IF c = "MLGenerator" THEN 1 ELSE 2

ExampleIds == {"e1", "e2"}
Descriptions == {<<>>, Blank, Desc_villa, Desc_padded}

\* router.post('/generate-example/:exampleId'): the ML service is called
ExampleStart(s, exampleId) ==
  /\ req[s].pc \in {"idle", "done"}
  /\ req' = [req EXCEPT ![s] = [IdleSlot EXCEPT !.kind = "example",
                !.body = [exampleId |-> exampleId], !.pc = "mlCall",
                !.loc = [url |-> "/generate/example", exampleId |-> exampleId,
                         timeout |-> TimeoutRouter]]]
  /\ mlCalls' = [mlCalls EXCEPT ![s] = 1]
  /\ UNCHANGED <<users, now, clientToken, discarded, app, gen>>

ExampleResolve(s, data) ==
  /\ req[s].kind = "example" /\ req[s].pc = "mlCall"
  /\ IF data.success
     THEN Respond(s, 200, [success |-> TRUE,
                           message |-> <<"Example '", req[s].body.exampleId,
                                         "' generated successfully">>,
                           data |-> data.data])
     ELSE Respond(s, 500, [success |-> FALSE, message |-> "Example generation failed",
                           error |-> data.error])
  /\ UNCHANGED <<users, now, clientToken, discarded, mlCalls, app, gen>>

ExampleReject(s, err) ==
  /\ req[s].kind = "example" /\ req[s].pc = "mlCall"
  /\ Throw(s, "ml", 500, [success |-> FALSE,
                          message |-> "Server error during example generation",
                          error |-> err])
  /\ UNCHANGED <<users, now, clientToken, discarded, mlCalls, app, gen>>

\* faulty variant: the controls stay enabled while a generation runs
canSubmit_alwaysEnabled(g) == TRUE

\* disabled={isGenerating} of the buttons that start a generation
canSubmit(g) == ~g.isGenerating

\* the textarea (disabled={isGenerating}) is edited
GenSetDescription(c, d) ==
  /\ ~gen[c].isGenerating /\ gen[c].description # d
  /\ gen' = [gen EXCEPT ![c].description = d]
  /\ UNCHANGED <<users, req, now, clientToken, discarded, mlCalls, app>>

\* generateHouse / handleTextSubmit up to the await: the button is disabled
\* for a blank description as well; MLGenerator also clears its result
GenGenerateHouse(c) ==
  /\ canSubmit(gen[c]) /\ trim(gen[c].description) # <<>>
  /\ gen' = [gen EXCEPT ![c].isGenerating = TRUE, ![c].pending = @ + 1,
                        ![c].call = "house", ![c].error = <<>>,
                        ![c].result = IF c = "MLGenerator" THEN "null" ELSE @]
  /\ UNCHANGED <<users, req, now, clientToken, discarded, mlCalls, app>>

\* MLGenerator.generateExample up to the await
GenGenerateExample(c, exampleId) ==
  /\ c = "MLGenerator" /\ canSubmit(gen[c])
  /\ gen' = [gen EXCEPT ![c].isGenerating = TRUE, ![c].pending = @ + 1,
                        ![c].call = exampleId, ![c].error = <<>>, ![c].result = "null"]
  /\ UNCHANGED <<users, req, now, clientToken, discarded, mlCalls, app>>

\* AakarDashboard.handleImageUpload / handleVideoUpload (the inputs are
\* disabled while isGenerating)
GenUpload(c, kind) ==
  /\ c = "AakarDashboard" /\ ~gen[c].isGenerating /\ kind \notin gen[c].files
  /\ gen' = [gen EXCEPT ![c].files = @ \cup {kind}]
  /\ UNCHANGED <<users, req, now, clientToken, discarded, mlCalls, app>>

\* AakarDashboard.handleImageSubmit / handleVideoSubmit: no await, so
\* setIsGenerating(true) and setIsGenerating(false) are one update and no
\* request is started
GenMediaSubmit(c, kind) ==
  /\ c = "AakarDashboard" /\ canSubmit(gen[c]) /\ kind \in gen[c].files
  /\ gen[c].result # kind
  /\ gen' = [gen EXCEPT ![c].isGenerating = FALSE, ![c].error = <<>>, ![c].result = kind]
  /\ UNCHANGED <<users, req, now, clientToken, discarded, mlCalls, app>>

\* the request of a component arrives at the server; axios sends no
\* Authorization header
GenArrives(c) ==
  /\ gen[c].pending > 0 /\ req[slotOf(c)].pc = "idle"
  /\ IF gen[c].call = "house"
     THEN \E route \in Routes :
            GenerateStart(slotOf(c), route, NoHeader, GenerateBody(gen[c].description))
     ELSE ExampleStart(slotOf(c), gen[c].call)

\* what the catch block shows: error.response?.data?.message or a fixed text
\* in MLGenerator, err.response?.data?.error or err.message in AakarDashboard
caughtError(c, g, res) ==
  IF c = "MLGenerator"
  THEN IF res # NoResponse
       THEN <<res.body.message>>
       ELSE IF g.call = "house" THEN <<"An error occurred during generation">>
            ELSE <<"An error occurred during example generation">>
  ELSE IF res # NoResponse /\ "error" \in DOMAIN res.body
       THEN <<"Error: ", res.body.error>>
       ELSE IF res # NoResponse THEN <<"Error: ", "Request failed with status code">>
            ELSE <<"Error: ", "Network Error">>

\* the rest of a handler after its await: try, catch and finally.  axios
\* throws for a status outside 2xx and when no response came (NoResponse)
genSettled(c, g, res) ==
  LET shown ==
        IF res # NoResponse /\ ResponseOk(res)
        THEN IF res.body.success
             THEN [g EXCEPT !.result = "house"]
             ELSE [g EXCEPT !.error = IF c = "MLGenerator" THEN <<res.body.message>>
                                      ELSE <<"Failed to generate 3D model">>]
        ELSE [g EXCEPT !.error = caughtError(c, g, res)]
  IN  [shown EXCEPT !.isGenerating = FALSE, !.pending = @ - 1,
                    !.call = IF g.pending = 1 THEN "none" ELSE @]

\* the response is there and the await returns
GenReturns(c) ==
  /\ gen[c].pending > 0
  /\ req[slotOf(c)].kind \in {"generate", "example"} /\ req[slotOf(c)].pc = "done"
  /\ gen' = [gen EXCEPT ![c] = genSettled(c, @, req[slotOf(c)].res)]
  /\ req' = [req EXCEPT ![slotOf(c)] = IdleSlot]
  /\ UNCHANGED <<users, now, clientToken, discarded, mlCalls, app>>

\* the request or its response is lost: axios rejects without a response
GenFetchRejects(c) ==
  /\ gen[c].pending > 0
  /\ gen' = [gen EXCEPT ![c] = genSettled(c, @, NoResponse)]
  /\ req' = [req EXCEPT ![slotOf(c)] = IdleSlot]
  /\ UNCHANGED <<users, now, clientToken, discarded, mlCalls, app>>

NextGen ==
  \E c \in Components :
    \/ \E d \in Descriptions : GenSetDescription(c, d)
    \/ GenGenerateHouse(c)
    \/ \E exampleId \in ExampleIds : GenGenerateExample(c, exampleId)
    \/ \E kind \in {"image", "video"} : GenUpload(c, kind)
    \/ \E kind \in {"image", "video"} : GenMediaSubmit(c, kind)
    \/ GenArrives(c)
    \/ \E data \in MLAnswers : GenerateResolve(slotOf(c), data)
    \/ \E err \in MLErrors : GenerateReject(slotOf(c), err)
    \/ \E data \in MLAnswers : ExampleResolve(slotOf(c), data)
    \/ \E err \in MLErrors : ExampleReject(slotOf(c), err)
    \/ GenReturns(c)
    \/ GenFetchRejects(c)

SpecGen == Init /\ [][NextGen]_vars

\* a generation request started by component c is in flight
InFlight(c) == gen[c].pending > 0

\* C29: in each generator component isGenerating is true exactly while a
\* generation request started by that component is in flight: it is true
\* from the start of a request, false again after every outcome (success,
\* failure response, thrown error), and never false while a request of the
\* component is pending; a second submission cannot start before the first
\* has completed.
C29_GeneratingIffInFlight ==
  /\ [](\A c \in Components : gen[c].isGenerating <=> InFlight(c))
  /\ [][\A c \in Components :
          /\ (gen'[c].pending > gen[c].pending) => (~InFlight(c) /\ gen'[c].isGenerating)
          /\ (gen'[c].pending < gen[c].pending) => ~gen'[c].isGenerating]_vars

\* a generation of MLGenerator has ended with an error shown while one of
\* AakarDashboard is still in flight after an earlier success
C29_Witness ==
  /\ ~gen["MLGenerator"].isGenerating /\ gen["MLGenerator"].error # <<>>
  /\ gen["AakarDashboard"].isGenerating /\ gen["AakarDashboard"].result = "house"
  /\ req[slotOf("AakarDashboard")].pc = "mlCall"


(***************************************************************************)
(* Validation of a login request (Spec).                                   *)
(***************************************************************************)
\* the login request in slot s lacks its identifier or its password
LoginIncomplete(s) ==
  /\ req[s].kind = "login"
  /\ Falsy(req[s].body.emailOrUsername) \/ Falsy(req[s].body.password)

\* C30: a login in which emailOrUsername or password is empty or missing is
\* answered 400 with a validation error on arrival: it never waits for the
\* store (findOne) or the hasher (compare), its response carries no token,
\* and the store is as it was.
C30_LoginValidationError ==
  /\ [](\A s \in Slots : LoginIncomplete(s) =>
          /\ req[s].pc = "done" /\ req[s].fault = "none"
          /\ req[s].res.status = 400
          /\ req[s].res.body = [error |-> "Email/Username and password are required"])
  /\ [][\A s \in Slots :
          (LoginIncomplete(s)' /\ req'[s] # req[s]) =>
            /\ req[s].pc \in {"idle", "done"}
            /\ users' = users /\ clientToken' = clientToken]_vars

\* a login of a registered user that carries no password was answered 400
C30_Witness ==
  \E s \in Slots :
    /\ req[s].kind = "login" /\ req[s].pc = "done" /\ req[s].res.status = 400
    /\ req[s].body.password = Undefined
    /\ \E u \in users : u \in loginMatches(req[s].body.emailOrUsername)

====
